---- MODULE Spec2Model ----
(***************************************************************************)
(* DialogueGCN (src/model.py): the graph-construction pipeline.            *)
(*                                                                         *)
(*   edge_perms              window edge generator (pure)                  *)
(*   DialogueGCNModel        constructor: windows and edge_type_mapping    *)
(*   MaskedEdgeAttention     edge weights ('attn1' branch, the only live   *)
(*                           one)                                          *)
(*   batch_graphify          batch graph assembly, called by forward       *)
(*   GraphNetwork            what its first convolution is given           *)
(*   DialogueGCN_DailyModel  constructor (its forward builds the graph as  *)
(*                           DialogueGCNModel.forward does)                *)
(*                                                                         *)
(* Tensors are functions over 0-based index ranges, Python lists are       *)
(* sequences (1-based), Python dicts are functions whose DOMAIN is the key *)
(* set, Python strings of digits are sequences of digits.                  *)
(***************************************************************************)
EXTENDS Integers, Sequences, FiniteSets, TLC

VARIABLES
    pc,                 \* position: "args"/"returned" (edge_perms harness),
                        \*           "new"/"built"/"done" (model life cycle)
    l,                  \* edge_perms argument l
    all_perms,          \* edge_perms return value, list(all_perms)
    n_speakers,         \* constructor argument n_speakers
    window_past,        \* self.window_past   (edge_perms argument in SpecPerms)
    window_future,      \* self.window_future (edge_perms argument in SpecPerms)
    edge_type_mapping,  \* self.edge_type_mapping
    ctor,               \* the constructor call: class and window arguments
    graph_net,          \* self.graph_net: num_relations and num_bases of conv1
    features,           \* forward input: features[p][d], shape (seq_len, batch)
    qmask,              \* forward input: qmask[p][d][s], shape (seq_len, batch, party)
    lengths,            \* forward input: lengths[d]
    exp_scale,          \* exp(self.scalar(M)): the softmax numerators of line 341
    scores,             \* return value of att_model(features, lengths, edge_ind)
    node_features,      \* batch_graphify outputs
    edge_index,
    edge_norm,
    edge_type,
    edge_index_lengths,
    messages,           \* the per-edge messages of graph_net's conv1
    raised,             \* TRUE when forward ended with an exception
    calls               \* the number of forward calls made so far

vars == <<pc, l, all_perms, n_speakers, window_past, window_future,
          edge_type_mapping, features, qmask, lengths, exp_scale, scores,
          node_features, edge_index, edge_norm, edge_type,
          edge_index_lengths, raised, ctor, graph_net, messages, calls>>

modelVars == <<n_speakers, edge_type_mapping, ctor, graph_net>>
batchVars == <<features, qmask, lengths, exp_scale>>
graphVars == <<scores, node_features, edge_index, edge_norm, edge_type,
               edge_index_lengths, messages, raised>>

----------------------------------------------------------------------------
(* Bounds of the exploration.                                              *)

MaxLen == 4             \* largest l handed to edge_perms in SpecPerms
MaxWindow == 2          \* largest window in SpecPerms and SpecMap
MaxSpeakers == 12       \* largest n_speakers in SpecMap
MaxBatch == 2           \* largest batch size
MaxSeqLen == 3          \* largest padded sequence length
MaxUtterances == 3      \* largest number of valid utterances in a batch
MaxCalls == 2           \* largest number of forward calls on one model
BigWeight == 1000000    \* the large softmax numerator (ratio 1e6 to the small one)

\* Window values explored; -2 is a malformed window (below -1).
WindowVals == (-2)..MaxWindow
\* Windows and speaker counts of the models that Spec builds.
GraphWindowVals == {-2, -1, 0, 1}
GraphSpeakerVals == {1, 2}

----------------------------------------------------------------------------
(* Python / numpy primitives.                                              *)

Min(a, b) == IF a <= b THEN a ELSE b
Max(a, b) == IF a >= b THEN a ELSE b

\* list(s) for a set s: CPython enumerates a set in an order fixed by the
\* set's contents; CHOOSE is exactly a fixed, unspecified order.
RECURSIVE SetToList(_)
SetToList(S) ==
    IF S = {} THEN <<>>
    ELSE LET x == CHOOSE y \in S : TRUE
         IN  <<x>> \o SetToList(S \ {x})

\* np.arange(n)[start:stop]: a negative bound counts from the end, and both
\* bounds are clipped to [0, n].  The values of arange are the indices.
PySlice(n, start, stop) ==
    LET norm(x) == IF x < 0 THEN Max(0, x + n) ELSE Min(x, n)
    IN  {i \in 0..(n - 1) : norm(start) <= i /\ i < norm(stop)}

\* e, with v evaluated first: keeps an accumulator of a loop a value instead
\* of a chain of pending updates (evaluation order only, the result is e).
Strict(v, e) == IF v = v THEN e ELSE e

\* Elements of a sequence, as a set.
Range(s) == {s[k] : k \in DOMAIN s}

----------------------------------------------------------------------------
(* edge_perms (src/model.py 431-453).                                      *)

\* Variant of eff_array that forgets the "+1" of the future bound.
eff_array_NoPlusOne(len, j, wp, wf) ==
    IF wp = -1 /\ wf = -1 THEN PySlice(len, 0, len)
    ELSE IF wp = -1 THEN PySlice(len, 0, Min(len, j + wf))
    ELSE IF wf = -1 THEN PySlice(len, Max(0, j - wp), len)
    ELSE PySlice(len, Max(0, j - wp), Min(len, j + wf))

\* Variant of eff_array that excludes the anchor itself.
eff_array_NoSelf(len, j, wp, wf) ==
    (IF wp = -1 /\ wf = -1 THEN PySlice(len, 0, len)
     ELSE IF wp = -1 THEN PySlice(len, 0, Min(len, j + wf + 1))
     ELSE IF wf = -1 THEN PySlice(len, Max(0, j - wp), len)
     ELSE PySlice(len, Max(0, j - wp), Min(len, j + wf + 1))) \ {j}

\* eff_array of anchor j: the four branches of lines 441-448.
eff_array(len, j, wp, wf) ==
    IF wp = -1 /\ wf = -1 THEN PySlice(len, 0, len)
    ELSE IF wp = -1 THEN PySlice(len, 0, Min(len, j + wf + 1))
    ELSE IF wf = -1 THEN PySlice(len, Max(0, j - wp), len)
    ELSE PySlice(len, Max(0, j - wp), Min(len, j + wf + 1))

\* The set all_perms after the loop over j in range(l).
RECURSIVE perms_loop(_, _, _, _, _)
perms_loop(len, j, wp, wf, acc) ==
    IF j >= len THEN acc
    ELSE LET perms == {<<j, item>> : item \in eff_array(len, j, wp, wf)}
         IN  perms_loop(len, j + 1, wp, wf, acc \cup perms)

\* edge_perms(l, window_past, window_future): list(all_perms).
edge_perms(len, wp, wf) == SetToList(perms_loop(len, 0, wp, wf, {}))

----------------------------------------------------------------------------
(* SpecPerms: edge_perms applied to every argument triple in the bounds.   *)

InitPerms ==
    /\ pc = "args"
    /\ l \in 0..MaxLen
    /\ window_past \in WindowVals
    /\ window_future \in WindowVals
    /\ all_perms = <<>>
    /\ n_speakers = 0
    /\ edge_type_mapping = <<>>
    /\ ctor = <<>> /\ graph_net = <<>> /\ messages = <<>> /\ calls = 0
    /\ features = <<>> /\ qmask = <<>> /\ lengths = <<>> /\ exp_scale = <<>>
    /\ scores = <<>> /\ node_features = <<>> /\ edge_index = <<>>
    /\ edge_norm = <<>> /\ edge_type = <<>> /\ edge_index_lengths = <<>>
    /\ raised = FALSE

CallEdgePerms ==
    /\ pc = "args"
    /\ all_perms' = edge_perms(l, window_past, window_future)
    /\ pc' = "returned"
    /\ UNCHANGED <<l, window_past, window_future, modelVars, batchVars,
                   graphVars, calls>>

NextPerms == CallEdgePerms

SpecPerms == InitPerms /\ [][NextPerms]_vars

----------------------------------------------------------------------------
(* Claims about edge_perms.                                                *)

\* The window of anchor i as the specification words it.
WindowLo(i, wp) == IF wp = -1 THEN 0 ELSE Max(0, i - wp)
WindowHi(len, i, wf) == IF wf = -1 THEN len ELSE Min(len, i + wf + 1)
WindowPairs(len, wp, wf) ==
    {<<i, j>> \in (0..(len - 1)) \X (0..(len - 1)) :
        WindowLo(i, wp) <= j /\ j < WindowHi(len, i, wf)}

ValidWindows == window_past >= -1 /\ window_future >= -1

\* C2: for windows >= -1, edge_perms returns exactly the pairs (i, j) with
\* 0 <= i < length and lo(i) <= j < hi(i): none missing, none extra, none
\* twice; length 3 with windows 1, 1 gives exactly the seven pairs listed.
C2_ExactWindowPairs ==
    (pc = "returned" /\ ValidWindows) =>
        /\ Range(all_perms) = WindowPairs(l, window_past, window_future)
        /\ Len(all_perms) = Cardinality(WindowPairs(l, window_past, window_future))
        /\ (l = 3 /\ window_past = 1 /\ window_future = 1) =>
              Range(all_perms) = {<<0, 0>>, <<0, 1>>, <<1, 0>>, <<1, 1>>,
                                  <<1, 2>>, <<2, 1>>, <<2, 2>>}

C2_Witness ==
    /\ pc = "returned"
    /\ l = 3 /\ window_past = 1 /\ window_future = 1
    /\ Len(all_perms) = 7

\* C3: for length >= 1 and windows >= -1, every returned edge (i, j) has
\* 0 <= i < length and 0 <= j < length, and every self-loop (i, i) is there.
C3_InRangeWithSelfLoops ==
    (pc = "returned" /\ l >= 1 /\ ValidWindows) =>
        /\ \A e \in Range(all_perms) :
              0 <= e[1] /\ e[1] < l /\ 0 <= e[2] /\ e[2] < l
        /\ \A i \in 0..(l - 1) : <<i, i>> \in Range(all_perms)

C3_Witness ==
    /\ pc = "returned"
    /\ l = MaxLen /\ window_past = 0 /\ window_future = 2
    /\ <<l - 1, l - 1>> \in Range(all_perms)
    /\ <<0, 2>> \in Range(all_perms)

----------------------------------------------------------------------------
(* DialogueGCNModel.__init__ (src/model.py 595-632).                       *)

\* str(n) for an integer n >= 0: its decimal digits, most significant first.
RECURSIVE str(_)
str(n) == IF n < 10 THEN <<n>> ELSE str(n \div 10) \o <<n % 10>>

\* Variant of RelationKey that separates the parts: fixed-width speaker
\* fields, so that no two triples can share a key.
RelationKey_Separated(s0, s1, d) == <<s0, s1, d>>

\* The dictionary key str(speaker0) + str(speaker1) + '0' (or '1').
RelationKey(s0, s1, d) == str(s0) \o str(s1) \o <<d>>

\* len(d) of a dict.
DictLen(d) == Cardinality(DOMAIN d)

\* d[key] = value: a new key is added, an existing key is overwritten.
DictPut(d, key, value) ==
    [x \in (DOMAIN d) \cup {key} |-> IF x = key THEN value ELSE d[x]]

\* The inner loop of lines 628-630, for k in range(n_speakers).  The
\* right-hand side len(edge_type_mapping) is evaluated before each
\* assignment.
RECURSIVE mapping_inner(_, _, _, _)
mapping_inner(n, j, k, d) ==
    IF k >= n THEN d
    ELSE LET d1 == DictPut(d, RelationKey(j, k, 0), DictLen(d))
             d2 == DictPut(d1, RelationKey(j, k, 1), DictLen(d1))
         IN  Strict(d2, mapping_inner(n, j, k + 1, d2))

\* The outer loop of line 627, for j in range(n_speakers).
RECURSIVE mapping_loop(_, _, _)
mapping_loop(n, j, d) ==
    IF j >= n THEN d
    ELSE LET d1 == mapping_inner(n, j, 0, d)
         IN  Strict(d1, mapping_loop(n, j + 1, d1))

EmptyDict == [x \in {} |-> 0]

\* Variant of build_edge_type_mapping that numbers direction 0 and 1 of a
\* speaker pair with the same label.
build_edge_type_mapping_SharedLabel(n) ==
    [key \in DOMAIN mapping_loop(n, 0, EmptyDict) |->
        2 * (mapping_loop(n, 0, EmptyDict)[key] \div 2)]

\* edge_type_mapping as built by the constructor.
build_edge_type_mapping(n) == mapping_loop(n, 0, EmptyDict)

\* n_relations = 2 * n_speakers ** 2 (line 618).
n_relations(n) == 2 * n * n

\* RGCNConv(num_features, hidden_size, num_relations, num_bases=30), line 575.
num_bases == 30

\* GraphNetwork.__init__: what it gives the relation-aware convolution.
GraphNetwork_init(num_relations) ==
    [num_relations |-> num_relations, num_bases |-> num_bases]

\* DialogueGCNModel.__init__: it stores the windows as given, builds the
\* graph network and the map.  No argument is validated.
Construct(n, wp, wf) ==
    /\ pc = "new"
    /\ ctor' = [class |-> "DialogueGCNModel",
                window_past |-> wp, window_future |-> wf]
    /\ n_speakers' = n
    /\ window_past' = wp
    /\ window_future' = wf
    /\ graph_net' = GraphNetwork_init(n_relations(n))
    /\ edge_type_mapping' = build_edge_type_mapping(n)
    /\ pc' = "built"
    /\ UNCHANGED <<l, all_perms, batchVars, graphVars, calls>>

InitModel ==
    /\ pc = "new"
    /\ l = 0 /\ all_perms = <<>>
    /\ n_speakers = 0 /\ window_past = 0 /\ window_future = 0
    /\ edge_type_mapping = <<>>
    /\ ctor = <<>> /\ graph_net = <<>> /\ messages = <<>> /\ calls = 0
    /\ features = <<>> /\ qmask = <<>> /\ lengths = <<>> /\ exp_scale = <<>>
    /\ scores = <<>> /\ node_features = <<>> /\ edge_index = <<>>
    /\ edge_norm = <<>> /\ edge_type = <<>> /\ edge_index_lengths = <<>>
    /\ raised = FALSE

----------------------------------------------------------------------------
(* SpecMap: construction for every n_speakers up to MaxSpeakers.           *)

ConstructAny ==
    \E n \in 1..MaxSpeakers, wp \in WindowVals, wf \in WindowVals :
        Construct(n, wp, wf)

NextMap == ConstructAny

SpecMap == InitModel /\ [][NextMap]_vars

\* The (speaker_i, speaker_j, direction) triples of a model.
Triples(n) == (0..(n - 1)) \X (0..(n - 1)) \X {0, 1}

\* C4: the relation-type map is a bijection for every num_speakers >= 1: it
\* has exactly 2*num_speakers^2 entries, two distinct triples never share a
\* key or a label, and every label lies in [0, 2*num_speakers^2).
C4_MapIsBijection ==
    pc = "built" =>
        /\ DictLen(edge_type_mapping) = 2 * n_speakers * n_speakers
        /\ \A a \in Triples(n_speakers), b \in Triples(n_speakers) :
              a # b =>
                 /\ RelationKey(a[1], a[2], a[3]) # RelationKey(b[1], b[2], b[3])
                 /\ edge_type_mapping[RelationKey(a[1], a[2], a[3])]
                      # edge_type_mapping[RelationKey(b[1], b[2], b[3])]
        /\ \A key \in DOMAIN edge_type_mapping :
              0 <= edge_type_mapping[key]
              /\ edge_type_mapping[key] < 2 * n_speakers * n_speakers

----------------------------------------------------------------------------
(* MaskedEdgeAttention.forward, branch 'attn1' (src/model.py 337-363).     *)
(*                                                                         *)
(* A weight is kept exactly.  A number c + e * 1e-10 is the pair <<c, e>>, *)
(* in units of the row's softmax denominator, and a quotient is the record *)
(* [num, den] of two such numbers; [num |-> Zero, den |-> Zero] is 0/0,    *)
(* which torch returns as nan without raising.                             *)

Zero == <<0, 0>>
One == <<1, 0>>
Plus(x, y) == <<x[1] + y[1], x[2] + y[2]>>
Times(a, x) == <<a * x[1], a * x[2]>>

\* self.max_seq_len: the constructor is given the largest padded length.
max_seq_len == MaxSeqLen

\* Variant of MaskFloor that fills the mask with 0 outside the edges.
MaskFloor_Zero == Zero

\* torch.ones(alpha.size()) * 1e-10: the mask value outside the edge set.
MaskFloor == <<0, 1>>

\* alpha = F.softmax(scale, dim=0).permute(1, 2, 0): alpha[b, i, s], whose
\* rows sum to 1; the numerator is exp_scale[s].
alpha(es, b, i, s) == es[s]

\* mask[edge_ind_] = 1 over a mask filled with 1e-10 (lines 345-358).
mask(edge_ind_, i, s) ==
    IF <<i, s>> \in edge_ind_ THEN One ELSE MaskFloor

\* mask_copy[edge_ind_] = 1 over a mask filled with 0 (lines 346-359).
mask_copy(edge_ind_, i, s) ==
    IF <<i, s>> \in edge_ind_ THEN 1 ELSE 0

\* masked_alpha = alpha * mask (line 360).
masked_alpha(es, edge_ind_, b, i, s) ==
    Times(alpha(es, b, i, s), mask(edge_ind_, i, s))

\* _sums = masked_alpha.sum(-1, keepdim=True) (line 361), summed up to s.
RECURSIVE sums_upto(_, _, _, _, _)
sums_upto(es, edge_ind_, b, i, s) ==
    IF s < 0 THEN Zero
    ELSE Plus(sums_upto(es, edge_ind_, b, i, s - 1),
              masked_alpha(es, edge_ind_, b, i, s))

\* Row i of dialogue b of scores, _sums being the row's sum.
scores_row(es, edge_ind_, b, i, seq_len, _sums) ==
    [s \in 0..(seq_len - 1) |->
        [num |-> Times(mask_copy(edge_ind_, i, s),
                       masked_alpha(es, edge_ind_, b, i, s)),
         den |-> _sums]]

\* The rows of dialogue b of scores, edge_ind_ being the index pairs that
\* lines 352-357 collect for it.
scores_of(es, edge_ind_, b, seq_len) ==
    [i \in 0..(max_seq_len - 1) |->
        scores_row(es, edge_ind_, b, i, seq_len,
                   sums_upto(es, edge_ind_, b, i, seq_len - 1))]

\* scores = masked_alpha.div(_sums) * mask_copy (line 362).
att_scores(es, edge_ind, batch_size, seq_len) ==
    [b \in 0..(batch_size - 1) |->
        scores_of(es, Range(edge_ind[b + 1]), b, seq_len)]

\* mask[edge_ind_] = 1 (line 358) raises IndexError when an index pair lies
\* outside alpha.size() = (batch, max_seq_len, seq_len).
att_error(edge_ind, seq_len) ==
    \E b \in DOMAIN edge_ind : \E x \in Range(edge_ind[b]) :
        x[1] >= max_seq_len \/ x[2] >= seq_len

\* A quotient that torch holds as nan or inf.
NotFinite(q) == q.den = Zero

----------------------------------------------------------------------------
(* batch_graphify (src/model.py 456-514).                                  *)

\* Variant of speaker_of that falls back to speaker 0 when the row holds
\* no 1.
speaker_of_DefaultZero(qm, p, j) ==
    IF p \notin DOMAIN qm THEN -1
    ELSE IF j \notin DOMAIN qm[p] THEN -1
    ELSE LET ones == {s \in DOMAIN qm[p][j] : qm[p][j][s] = 1}
         IN  IF ones = {} THEN 0
             ELSE CHOOSE s \in ones : \A t \in ones : s <= t

\* (qmask[p, j, :] == 1).nonzero()[0][0]: the first index holding a 1;
\* -1 stands for the IndexError raised when there is none, or when the
\* mask has no row (p, j).
speaker_of(qm, p, j) ==
    IF p \notin DOMAIN qm THEN -1
    ELSE IF j \notin DOMAIN qm[p] THEN -1
    ELSE LET ones == {s \in DOMAIN qm[p][j] : qm[p][j][s] = 1}
         IN  IF ones = {} THEN -1
             ELSE CHOOSE s \in ones : \A t \in ones : s <= t

\* Variant of direction_of that gives self-loops direction 0.
direction_of_SelfLoopForward(i0, i1) == IF i0 <= i1 THEN 0 ELSE 1

\* '0' when item1[0] < item1[1], else '1' (lines 493-500).
direction_of(i0, i1) == IF i0 < i1 THEN 0 ELSE 1

\* edge_ind of lines 471-472: a list with one entry per dialogue, so that
\* dialogue j is entry j + 1.
RECURSIVE edge_ind_loop(_, _, _, _, _, _)
edge_ind_loop(len, batch_size, wp, wf, j, acc) ==
    IF j >= batch_size THEN acc
    ELSE edge_ind_loop(len, batch_size, wp, wf, j + 1,
                       Append(acc, edge_perms(len[j], wp, wf)))

edge_ind_of(len, batch_size, wp, wf) ==
    edge_ind_loop(len, batch_size, wp, wf, 0, <<>>)

\* Variant of node_rows that takes every padded row of the dialogue.
node_rows_AllRows(feat, seq_len, j, len) ==
    [k \in 1..seq_len |-> feat[k - 1][j]]

\* features[:lengths[j], j, :] (line 478), as the list of its rows.
node_rows(feat, seq_len, j, len) ==
    [k \in 1..Cardinality(PySlice(seq_len, 0, len)) |-> feat[k - 1][j]]

\* Variant of shift_perms that offsets the source endpoint only.
shift_perms_SourceOnly(perms1, length_sum) ==
    [k \in DOMAIN perms1 |-> <<perms1[k][1] + length_sum, perms1[k][2]>>]

\* perms2 of line 481.
shift_perms(perms1, length_sum) ==
    [k \in DOMAIN perms1 |->
        <<perms1[k][1] + length_sum, perms1[k][2] + length_sum>>]

\* Variant of norm_of that reads the score of the reversed pair.
norm_of_Transposed(sc, j, item1) == sc[j][item1[2]][item1[1]]

\* scores[j, item1[0], item1[1]] (line 485).
norm_of(sc, j, item1) == sc[j][item1[1]][item1[2]]

\* The loop of lines 477-500.  in: the arguments and the attention scores;
\* acc: the lists built so far, length_sum, and error (an exception was
\* raised inside the loop).
RECURSIVE graph_loop(_, _, _)
graph_loop(in, j, acc) ==
    IF j >= in.batch_size \/ acc.error THEN acc
    ELSE
      LET len    == in.lengths[j]
          perms1 == edge_perms(len, in.window_past, in.window_future)
          perms2 == shift_perms(perms1, acc.length_sum)
          spk0   == [k \in DOMAIN perms1 |-> speaker_of(in.qmask, perms1[k][1], j)]
          spk1   == [k \in DOMAIN perms1 |-> speaker_of(in.qmask, perms1[k][2], j)]
          failed == \E k \in DOMAIN perms1 :
                        \/ spk0[k] = -1 \/ spk1[k] = -1
                        \/ RelationKey(spk0[k], spk1[k],
                                       direction_of(perms1[k][1], perms1[k][2]))
                              \notin DOMAIN in.edge_type_mapping
      IN  IF failed THEN [acc EXCEPT !.error = TRUE]
          ELSE graph_loop(in, j + 1,
                 [node_features |-> acc.node_features
                                      \o node_rows(in.features, in.seq_len, j, len),
                  edge_index |-> acc.edge_index \o perms2,
                  edge_norm |-> acc.edge_norm
                      \o [k \in DOMAIN perms1 |-> norm_of(in.scores, j, perms1[k])],
                  edge_type |-> acc.edge_type
                      \o [k \in DOMAIN perms1 |->
                            in.edge_type_mapping[
                               RelationKey(spk0[k], spk1[k],
                                   direction_of(perms1[k][1], perms1[k][2]))]],
                  length_sum |-> acc.length_sum + len,
                  edge_index_lengths |-> Append(acc.edge_index_lengths, Len(perms1)),
                  error |-> FALSE])

\* The number of edges of the whole batch.
RECURSIVE total_edges(_, _)
total_edges(edge_ind, b) ==
    IF b < 1 THEN 0 ELSE total_edges(edge_ind, b - 1) + Len(edge_ind[b])

\* lengths[j] of lines 471-472 raises IndexError when lengths has no entry
\* for some j in range(batch_size).
lengths_missing(len, batch_size) ==
    \E j \in 0..(batch_size - 1) : j \notin DOMAIN len

\* Variant of empty_lists that goes on with the edge_index_lengths list of
\* the previous call.
empty_lists_Kept ==
    [node_features |-> <<>>, edge_index |-> <<>>, edge_norm |-> <<>>,
     edge_type |-> <<>>, length_sum |-> 0,
     edge_index_lengths |-> edge_index_lengths, error |-> FALSE]

\* The locals of lines 465-469: every call starts from empty lists and
\* length_sum = 0.
empty_lists ==
    [node_features |-> <<>>, edge_index |-> <<>>, edge_norm |-> <<>>,
     edge_type |-> <<>>, length_sum |-> 0,
     edge_index_lengths |-> <<>>, error |-> FALSE]

\* batch_graphify: the attention scores, then the loop, then the stacking of
\* lines 502-505.  torch.stack of an empty list raises, so a batch without
\* any edge ends in an exception (error), as does an exception in the loop.
batch_graphify(feat, qm, len, batch_size, seq_len, wp, wf, mapping, es) ==
    IF lengths_missing(len, batch_size) THEN [error |-> TRUE]
    ELSE
    LET edge_ind == edge_ind_of(len, batch_size, wp, wf)
        sc  == att_scores(es, edge_ind, batch_size, seq_len)
        in  == [features |-> feat, qmask |-> qm, lengths |-> len,
                batch_size |-> batch_size, seq_len |-> seq_len,
                window_past |-> wp, window_future |-> wf,
                edge_type_mapping |-> mapping, scores |-> sc]
        acc == graph_loop(in, 0, empty_lists)
    IN  IF total_edges(edge_ind, batch_size) = 0
           \/ att_error(edge_ind, seq_len) \/ acc.error
        THEN [error |-> TRUE]
        ELSE [error |-> FALSE, scores |-> sc,
              node_features |-> acc.node_features,
              edge_index |-> acc.edge_index, edge_norm |-> acc.edge_norm,
              edge_type |-> acc.edge_type,
              edge_index_lengths |-> acc.edge_index_lengths]

----------------------------------------------------------------------------
(* DialogueGCNModel.forward (src/model.py 635-652).                        *)

\* RGCNConv.forward(x, edge_index, edge_type, edge_norm=None) of
\* torch_geometric, as far as its per-edge messages go: the message of edge
\* k carries the source node's features under the edge's relation, scaled
\* by edge_norm[k] when edge_norm is given and left unscaled (scale 1)
\* when it is None.
None == <<>>
RGCNConv(x, e_index, e_type, e_norm) ==
    [k \in DOMAIN e_index |->
        [x_j |-> x[e_index[k][1] + 1], target |-> e_index[k][2],
         relation |-> e_type[k],
         scale |-> IF e_norm = None THEN [num |-> One, den |-> One]
                   ELSE e_norm[k]]]

\* GraphNetwork.forward, line 585: out = self.conv1(x, edge_index,
\* edge_type); edge_norm is received and not handed on.
GraphNetwork_forward(x, e_index, e_norm, e_type) ==
    RGCNConv(x, e_index, e_type, None)

\* The call forward(U, qmask, umask, seq_lengths).  feat is the output of
\* the sequence encoder (lines 640-647), es the exponential of the scalar
\* layer's response to it.
Forward(batch_size, seq_len, len, qm, feat, es) ==
    /\ pc \in {"built", "done"}
    /\ \E r \in {batch_graphify(feat, qm, len, batch_size, seq_len,
                                 window_past, window_future,
                                 edge_type_mapping, es)} :
           IF r.error
           THEN /\ raised' = TRUE
                /\ UNCHANGED <<scores, node_features, edge_index, edge_norm,
                               edge_type, edge_index_lengths, messages>>
           ELSE /\ raised' = FALSE
                /\ scores' = r.scores
                /\ node_features' = r.node_features
                /\ edge_index' = r.edge_index
                /\ edge_norm' = r.edge_norm
                /\ edge_type' = r.edge_type
                /\ edge_index_lengths' = r.edge_index_lengths
                /\ messages' = GraphNetwork_forward(r.node_features, r.edge_index,
                                                    r.edge_norm, r.edge_type)
    /\ calls' = calls + 1
    /\ features' = feat
    /\ qmask' = qm
    /\ lengths' = len
    /\ exp_scale' = es
    /\ pc' = "done"
    /\ UNCHANGED <<l, all_perms, n_speakers, window_past, window_future,
                   edge_type_mapping, ctor, graph_net>>

----------------------------------------------------------------------------
(* Spec: a model with few speakers is built, then forward is called on a   *)
(* well-formed batch: lengths[d] <= seq_len, a one-hot speaker row at      *)
(* every valid position and a zero row at every padding position.  The     *)
(* feature row of position p of dialogue d is the token <<p, d>>, so all   *)
(* rows of a batch differ.  exp_scale is drawn from the responses that     *)
(* depend on the source position only.                                     *)

one_hot(n, s) == [x \in 0..(n - 1) |-> IF x = s THEN 1 ELSE 0]
zero_row(n) == [x \in 0..(n - 1) |-> 0]

\* The speaker sequences of the dialogues of at most seq_len utterances.
SpeakerSeqs(n, seq_len) ==
    UNION {[0..(len - 1) -> 0..(n - 1)] : len \in 0..seq_len}

lengths_of(spk) == [d \in DOMAIN spk |-> Cardinality(DOMAIN spk[d])]

RECURSIVE utterances(_, _)
utterances(len, b) == IF b < 1 THEN 0 ELSE utterances(len, b - 1) + len[b - 1]

\* The responses of the scalar layer explored: all sources alike, or one
\* source far above the others.
ExpScales(seq_len) ==
    {[s \in 0..(seq_len - 1) |-> IF s = h THEN BigWeight ELSE 1] :
        h \in (-1)..(seq_len - 1)}

qmask_of(n, batch_size, seq_len, spk) ==
    [p \in 0..(seq_len - 1) |->
        [d \in 0..(batch_size - 1) |->
            IF p \in DOMAIN spk[d] THEN one_hot(n, spk[d][p]) ELSE zero_row(n)]]

features_of(batch_size, seq_len) ==
    [p \in 0..(seq_len - 1) |-> [d \in 0..(batch_size - 1) |-> <<p, d>>]]

ConstructGraph ==
    \E n \in GraphSpeakerVals, wp \in GraphWindowVals, wf \in GraphWindowVals :
        Construct(n, wp, wf)

ForwardAny ==
    /\ pc = "built"
    /\ \E batch_size \in 1..MaxBatch, seq_len \in 1..MaxSeqLen :
        \E spk \in [0..(batch_size - 1) -> SpeakerSeqs(n_speakers, seq_len)] :
            /\ utterances(lengths_of(spk), batch_size) <= MaxUtterances
            /\ \E es \in ExpScales(seq_len) :
                   Forward(batch_size, seq_len, lengths_of(spk),
                           qmask_of(n_speakers, batch_size, seq_len, spk),
                           features_of(batch_size, seq_len), es)

Next == ConstructGraph \/ ForwardAny

Spec == InitModel /\ [][Next]_vars

\* Shapes of the batch of a finished call.
BatchSize == Cardinality(DOMAIN lengths)
SeqLen == Cardinality(DOMAIN features)
Returned == pc = "done" /\ ~raised

----------------------------------------------------------------------------
(* Vocabulary of the claims about a finished call.                         *)

\* sum(L_0..L_{d-1}): the first global node index of dialogue d.
RECURSIVE Offset(_)
Offset(d) == IF d <= 0 THEN 0 ELSE Offset(d - 1) + lengths[d - 1]

\* The global node indices of dialogue d.
NodeRange(d) == Offset(d)..(Offset(d) + lengths[d] - 1)

\* The number of edges emitted for the dialogues before d.
RECURSIVE EdgeStart(_)
EdgeStart(d) == IF d <= 0 THEN 0 ELSE EdgeStart(d - 1) + edge_index_lengths[d]

\* The positions, in the parallel edge lists, of the edges of dialogue d.
EdgesOf(d) == (EdgeStart(d) + 1)..(EdgeStart(d) + edge_index_lengths[d + 1])

Dialogues == 0..(BatchSize - 1)

\* The speaker of position p of dialogue d: the index of the 1 in its row.
Speaker(p, d) == CHOOSE sp \in DOMAIN qmask[p][d] : qmask[p][d][sp] = 1

\* The candidate targets of anchor row i of dialogue b.
Candidates(b, i) ==
    LET pairs == Range(edge_perms(lengths[b], window_past, window_future))
    IN  {s \in 0..(SeqLen - 1) : <<i, s>> \in pairs}

\* C1: every edge emitted for dialogue d has both global endpoints inside
\* that dialogue's node range [sum(L_0..L_{d-1}), sum(L_0..L_d)); the node
\* ranges of distinct dialogues do not overlap, and no edge connects nodes
\* of two different dialogues.
C1_EdgesStayInsideDialogue ==
    Returned =>
        /\ Len(edge_index) = EdgeStart(BatchSize)
        /\ \A d \in Dialogues : \A k \in EdgesOf(d) :
              edge_index[k][1] \in NodeRange(d) /\ edge_index[k][2] \in NodeRange(d)
        /\ \A d \in Dialogues, e \in Dialogues :
              d # e => NodeRange(d) \cap NodeRange(e) = {}
        /\ \A k \in DOMAIN edge_index : \A d \in Dialogues, e \in Dialogues :
              (edge_index[k][1] \in NodeRange(d) /\ edge_index[k][2] \in NodeRange(e))
                  => d = e

C1_Witness ==
    /\ Returned
    /\ BatchSize = 2 /\ lengths[0] = 1 /\ lengths[1] = 2
    /\ <<1, 2>> \in Range(edge_index)
    /\ <<2, 1>> \in Range(edge_index)
    /\ <<0, 0>> \in Range(edge_index)

\* C5: the relation label of the edge with local endpoints (i, i') of
\* dialogue d is the map's value for (speaker of i, speaker of i',
\* direction), the speaker being the index of the 1 in the utterance's
\* one-hot row and the direction 0 exactly when i < i' (self-loops and
\* backward edges get 1); with speakers 0 then 1, edge (0,1) has the label of
\* key "010" and edge (1,0) the label of key "101".
C5_RelationLabelOfEdge ==
    Returned =>
        /\ Len(edge_type) = Len(edge_index)
        /\ \A d \in Dialogues : \A k \in EdgesOf(d) :
              LET i0 == edge_index[k][1] - Offset(d)
                  i1 == edge_index[k][2] - Offset(d)
              IN  /\ edge_type[k] =
                        edge_type_mapping[
                            RelationKey(Speaker(i0, d), Speaker(i1, d),
                                        IF i0 < i1 THEN 0 ELSE 1)]
                  /\ (Speaker(i0, d) = 0 /\ Speaker(i1, d) = 1 /\ i0 = 0 /\ i1 = 1)
                        => edge_type[k] = edge_type_mapping[<<0, 1, 0>>]
                  /\ (Speaker(i0, d) = 1 /\ Speaker(i1, d) = 0 /\ i0 = 1 /\ i1 = 0)
                        => edge_type[k] = edge_type_mapping[<<1, 0, 1>>]

C5_Witness ==
    /\ Returned
    /\ BatchSize = 1 /\ lengths[0] = 3
    /\ window_past = 1 /\ window_future = 1
    /\ Speaker(0, 0) = 0 /\ Speaker(1, 0) = 1 /\ Speaker(2, 0) = 0
    /\ \E k \in DOMAIN edge_index :
          edge_index[k] = <<0, 1>> /\ edge_type[k] = edge_type_mapping[<<0, 1, 0>>]
    /\ \E k \in DOMAIN edge_index :
          edge_index[k] = <<1, 0>> /\ edge_type[k] = edge_type_mapping[<<1, 0, 1>>]
    /\ \E k \in DOMAIN edge_index :
          edge_index[k] = <<2, 2>> /\ edge_type[k] = edge_type_mapping[<<0, 0, 1>>]

\* C6: node_features has exactly sum(valid_lengths) rows, ordered by
\* dialogue and then by position: row sum(L_0..L_{d-1}) + p is the feature
\* vector of position p of dialogue d for every p < L_d, and no padding
\* position contributes a row or an edge endpoint.
C6_NodeRowsAreValidPositions ==
    Returned =>
        /\ Len(node_features) = Offset(BatchSize)
        /\ \A d \in Dialogues : \A p \in 0..(lengths[d] - 1) :
              node_features[Offset(d) + p + 1] = features[p][d]
        /\ \A k \in DOMAIN node_features :
              \E d \in Dialogues : \E p \in 0..(lengths[d] - 1) :
                  node_features[k] = features[p][d]
        /\ \A d \in Dialogues : \A k \in EdgesOf(d) :
              /\ edge_index[k][1] - Offset(d) < lengths[d]
              /\ edge_index[k][2] - Offset(d) < lengths[d]

C6_Witness ==
    /\ Returned
    /\ BatchSize = 2 /\ SeqLen = 3 /\ lengths[0] = 2 /\ lengths[1] = 1
    /\ node_features = <<features[0][0], features[1][0], features[0][1]>>

----------------------------------------------------------------------------
(* Claims about the edge weights.                                          *)

\* 100000: the mask floor is 1e-10 = 1 / (FloorRootInv * FloorRootInv), and
\* the tolerance 1e-5 of the weight claims is 1 / FloorRootInv.
FloorRootInv == 100000

CeilDiv(a, b) == (a + b - 1) \div b

\* The sum of the numerators of the weights of row (b, i) over the set S.
RECURSIVE NumSum(_, _, _)
NumSum(b, i, S) ==
    IF S = {} THEN Zero
    ELSE LET s == CHOOSE x \in S : TRUE
         IN  Plus(scores[b][i][s].num, NumSum(b, i, S \ {s}))

\* The common denominator of the weights of row (b, i).
RowDen(b, i) == scores[b][i][0].den

\* num / den is 1 within 1e-5, for num = <<c, 0>> and den = <<c, e>>, that
\* is for the quotient c / (c + e * 1e-10).  With K = FloorRootInv:
\*     1 - c / (c + e/K^2) <= 1/K   iff   (K - 1) * e <= K^2 * c
\*                                  iff   CeilDiv(e - e \div K, K) <= c,
\* the last form staying within 32-bit integers.  Every weight sum that
\* the attention returns has this shape: the numerators of the candidate
\* entries are exactly the terms of the 1-part of the denominator.
NearOne(num, den) ==
    /\ num[1] = den[1] /\ num[2] = 0
    /\ CeilDiv(den[2] - (den[2] \div FloorRootInv), FloorRootInv) <= den[1]

AnchorRows == 0..(max_seq_len - 1)

\* C7: for every anchor with a non-empty candidate set and every pre-mask
\* softmax matrix, the weights of the anchor's candidate edges sum to 1
\* within 1e-5, and every entry outside the candidate set is 0.  Windows are
\* well formed.
C7_CandidateWeightsSumToOne ==
    (Returned /\ ValidWindows) =>
        \A b \in Dialogues : \A i \in AnchorRows :
            Candidates(b, i) # {} =>
                /\ NearOne(NumSum(b, i, Candidates(b, i)), RowDen(b, i))
                /\ \A s \in (0..(SeqLen - 1)) \ Candidates(b, i) :
                      scores[b][i][s].num = Zero /\ ~NotFinite(scores[b][i][s])

\* C8: a dialogue of valid length 1 contributes exactly one edge, the
\* self-loop on its single node, with weight 1.0 (to the 1e-5 of the weight
\* claims) and the label of (s, s, direction 1), s its speaker, whatever the
\* padded length and the other dialogues are.  Windows are well formed.
C8_SingleUtteranceDialogue ==
    (Returned /\ ValidWindows) =>
        \A d \in Dialogues :
            lengths[d] = 1 =>
                /\ edge_index_lengths[d + 1] = 1
                /\ \A k \in EdgesOf(d) :
                      /\ edge_index[k] = <<Offset(d), Offset(d)>>
                      /\ edge_type[k] =
                            edge_type_mapping[
                                RelationKey(Speaker(0, d), Speaker(0, d), 1)]
                      /\ NearOne(edge_norm[k].num, edge_norm[k].den)

\* C9: a model is never built with a window below -1, and so edge_perms is
\* never run with one: such a construction is rejected.
C9_MalformedWindowRejected ==
    pc \in {"built", "done"} => (window_past >= -1 /\ window_future >= -1)

RECURSIVE RowTotal(_)
RowTotal(s) == IF s < 0 THEN 0 ELSE RowTotal(s - 1) + exp_scale[s]

----------------------------------------------------------------------------
(* SpecMasks: forward on batches whose speaker mask may hold rows without  *)
(* a 1 at valid positions (speaker -1 below).  The windows are symmetric.  *)

ConstructSymmetric ==
    \E n \in GraphSpeakerVals, w \in GraphWindowVals : Construct(n, w, w)

\* The speaker sequences in which an utterance may have no speaker.
MaskSeqs(n, seq_len) ==
    UNION {[0..(len - 1) -> (-1)..(n - 1)] : len \in 0..seq_len}

\* The response of the scalar layer that treats all sources alike.
FlatScale(seq_len) == [s \in 0..(seq_len - 1) |-> 1]

ForwardMasked ==
    /\ pc = "built"
    /\ \E batch_size \in 1..MaxBatch, seq_len \in 1..MaxSeqLen :
        \E spk \in [0..(batch_size - 1) -> MaskSeqs(n_speakers, seq_len)] :
            /\ utterances(lengths_of(spk), batch_size) <= MaxUtterances
            /\ Forward(batch_size, seq_len, lengths_of(spk),
                       qmask_of(n_speakers, batch_size, seq_len, spk),
                       features_of(batch_size, seq_len), FlatScale(seq_len))

NextMasks == ConstructSymmetric \/ ForwardMasked

SpecMasks == InitModel /\ [][NextMasks]_vars

\* The mask row of position p of dialogue d has no entry equal to 1.
NoSpeaker(p, d) == \A sp \in DOMAIN qmask[p][d] : qmask[p][d][sp] # 1

\* Some edge of the batch has an endpoint whose mask row has no 1.
EndpointWithoutSpeaker ==
    \E d \in Dialogues :
        \E x \in Range(edge_perms(lengths[d], window_past, window_future)) :
            NoSpeaker(x[1], d) \/ NoSpeaker(x[2], d)

\* C11: when the mask row of an endpoint of some edge has no entry equal to
\* 1, the call ends in an exception: no graph is returned and no edge gets
\* a relation label.
C11_MissingSpeakerFails ==
    (pc = "done" /\ EndpointWithoutSpeaker) =>
        /\ raised
        /\ edge_type = <<>> /\ edge_index = <<>> /\ node_features = <<>>

C11_Witness ==
    /\ pc = "done" /\ raised
    /\ BatchSize = 1 /\ lengths[0] = 2
    /\ window_past = 0 /\ window_future = 0
    /\ ~NoSpeaker(0, 0) /\ NoSpeaker(1, 0)

----------------------------------------------------------------------------
(* Claims about dialogues of valid length 0.                               *)

\* The batch-indexed function f without its entry d.
drop(f, d) ==
    [k \in 0..(Cardinality(DOMAIN f) - 2) |-> IF k < d THEN f[k] ELSE f[k + 1]]

\* What batch_graphify returns for the batch of the state without its
\* dialogue d.
GraphWithout(d) ==
    batch_graphify([p \in DOMAIN features |-> drop(features[p], d)],
                   [p \in DOMAIN qmask |-> drop(qmask[p], d)],
                   drop(lengths, d), BatchSize - 1, SeqLen,
                   window_past, window_future, edge_type_mapping, exp_scale)

\* C12: a dialogue of valid length 0 in a batch is tolerated: the call
\* returns, the dialogue has no node and no edge and an edge count of 0,
\* and the nodes and edges of the batch are those of the batch without it.
C12_EmptyDialogueTolerated ==
    (pc = "done" /\ \E d \in Dialogues : lengths[d] = 0) =>
        /\ ~raised
        /\ \A d \in Dialogues :
              lengths[d] = 0 =>
                  /\ edge_index_lengths[d + 1] = 0
                  /\ NodeRange(d) = {} /\ EdgesOf(d) = {}
                  /\ ~GraphWithout(d).error
                  /\ GraphWithout(d).node_features = node_features
                  /\ GraphWithout(d).edge_index = edge_index
                  /\ GraphWithout(d).edge_type = edge_type

----------------------------------------------------------------------------
(* Claims about the graph network.                                         *)

\* A weight that is 1 within the 1e-5 of the weight claims.
IsOne(q) == ~NotFinite(q) /\ NearOne(q.num, q.den)

\* Two weights are the same number: the same quotient, or both 1.
SameWeight(q, r) == q = r \/ (IsOne(q) /\ IsOne(r))

\* C13: the relation-aware first convolution consumes the edge weights:
\* the message of every edge to its target node is scaled by that edge's
\* edge_norm value.  Windows are well formed.
C13_EdgeNormScalesMessages ==
    (Returned /\ ValidWindows) =>
        /\ Len(messages) = Len(edge_norm)
        /\ \A k \in DOMAIN messages :
              /\ messages[k].target = edge_index[k][2]
              /\ messages[k].relation = edge_type[k]
              /\ SameWeight(messages[k].scale, edge_norm[k])

----------------------------------------------------------------------------
(* Claims about the edge lists as a whole.                                 *)

\* C14: edge_index, edge_norm and edge_type have the same length, the sum
\* of edge_index_lengths, whose entry for dialogue d is the size of
\* edge_perms for d; and the m-th pair (i, i') of edge_perms for d is
\* described by the three lists at one and the same position: its shifted
\* endpoints, the attention score at [d, i, i'], and the relation of
\* (i, i').
C14_ParallelEdgeLists ==
    Returned =>
        /\ Len(edge_index_lengths) = BatchSize
        /\ Len(edge_index) = EdgeStart(BatchSize)
        /\ Len(edge_norm) = EdgeStart(BatchSize)
        /\ Len(edge_type) = EdgeStart(BatchSize)
        /\ \A d \in Dialogues :
              LET perms == edge_perms(lengths[d], window_past, window_future)
              IN  /\ edge_index_lengths[d + 1] = Len(perms)
                  /\ \A m \in DOMAIN perms :
                        LET k  == EdgeStart(d) + m
                            i0 == perms[m][1]
                            i1 == perms[m][2]
                        IN  /\ edge_index[k] = <<Offset(d) + i0, Offset(d) + i1>>
                            /\ edge_norm[k] = scores[d][i0][i1]
                            /\ edge_type[k] =
                                  edge_type_mapping[
                                      RelationKey(Speaker(i0, d), Speaker(i1, d),
                                                  direction_of(i0, i1))]

C14_Witness ==
    /\ Returned
    /\ n_speakers = 2
    /\ BatchSize = 2 /\ lengths[0] = 1 /\ lengths[1] = 2
    /\ edge_index_lengths = <<1, 4>>
    /\ scores[1][0][1] # scores[1][1][0]
    /\ \E k \in DOMAIN edge_index :
          /\ edge_index[k] = <<1, 2>>
          /\ edge_norm[k] = scores[1][0][1]
          /\ edge_type[k] = edge_type_mapping[<<0, 1, 0>>]

----------------------------------------------------------------------------
(* SpecRepeat: forward is called again and again on one model.  The        *)
(* windows are symmetric, every batch is padded to max_seq_len, speakers   *)
(* take turns and the scalar layer treats all sources alike.               *)

\* Dialogues of the given lengths in which speakers take turns.
turns_of(n, len) ==
    [d \in DOMAIN len |-> [p \in 0..(len[d] - 1) |-> (p + d) % n]]

ForwardRepeat ==
    /\ pc \in {"built", "done"}
    /\ calls < MaxCalls
    /\ \E batch_size \in 1..MaxBatch :
        \E len \in [0..(batch_size - 1) -> 0..max_seq_len] :
            /\ utterances(len, batch_size) <= MaxUtterances
            /\ Forward(batch_size, max_seq_len, len,
                       qmask_of(n_speakers, batch_size, max_seq_len,
                                turns_of(n_speakers, len)),
                       features_of(batch_size, max_seq_len),
                       FlatScale(max_seq_len))

NextRepeat == ConstructSymmetric \/ ForwardRepeat

SpecRepeat == InitModel /\ [][NextRepeat]_vars

\* The batch of the last call has no edge at all.
NoEdgeInBatch ==
    \A d \in Dialogues :
        edge_perms(lengths[d], window_past, window_future) = <<>>

\* C15: whatever calls were made before, the last call has the outcome of
\* a very first call on its batch: it fails only if the batch has no edge,
\* and otherwise edge_index_lengths holds the sizes of edge_perms, node
\* numbering starts at 0 (the offset of dialogue d is the sum of the
\* lengths before it in this batch alone) and edge_index and edge_type
\* hold the shifted pairs and their relations; the relation map is the one
\* the constructor built.
C15_NoStateAcrossCalls ==
    pc = "done" =>
        /\ edge_type_mapping = build_edge_type_mapping(n_speakers)
        /\ raised = NoEdgeInBatch
        /\ ~raised =>
              /\ Len(edge_index_lengths) = BatchSize
              /\ Len(edge_index) = EdgeStart(BatchSize)
              /\ Len(edge_type) = EdgeStart(BatchSize)
              /\ Len(node_features) = Offset(BatchSize)
              /\ \A d \in Dialogues :
                    LET perms == edge_perms(lengths[d], window_past, window_future)
                    IN  /\ edge_index_lengths[d + 1] = Len(perms)
                        /\ \A m \in DOMAIN perms :
                              /\ edge_index[EdgeStart(d) + m] =
                                    <<Offset(d) + perms[m][1], Offset(d) + perms[m][2]>>
                              /\ edge_type[EdgeStart(d) + m] =
                                    edge_type_mapping[
                                        RelationKey(Speaker(perms[m][1], d),
                                                    Speaker(perms[m][2], d),
                                                    direction_of(perms[m][1], perms[m][2]))]

C15_Witness ==
    /\ Returned /\ calls = 2
    /\ BatchSize = 2 /\ lengths[0] = 1 /\ lengths[1] = 2
    /\ window_past = -1 /\ window_future = -1
    /\ edge_index[1] = <<0, 0>>
    /\ <<1, 2>> \in Range(edge_index)

----------------------------------------------------------------------------
(* SpecShapes: forward on batches whose arguments may disagree in shape:   *)
(* lengths with one entry fewer or more than features has dialogues, a     *)
(* valid length one above the padded length, a speaker mask one row        *)
(* shorter than features.  Every utterance is by speaker 0.                *)

shape_qmask(n, batch_size, qlen, len) ==
    [p \in 0..(qlen - 1) |->
        [d \in 0..(batch_size - 1) |->
            IF d \in DOMAIN len /\ p < len[d] THEN one_hot(n, 0) ELSE zero_row(n)]]

ForwardShapes ==
    /\ pc = "built"
    /\ \E batch_size \in 1..MaxBatch, seq_len \in 1..MaxSeqLen :
        \E k \in (batch_size - 1)..(batch_size + 1),
           qlen \in (seq_len - 1)..seq_len :
            \E len \in [0..(k - 1) -> 0..(seq_len + 1)] :
                /\ utterances(len, k) <= MaxUtterances
                /\ Forward(batch_size, seq_len, len,
                           shape_qmask(n_speakers, batch_size, qlen, len),
                           features_of(batch_size, seq_len), FlatScale(seq_len))

NextShapes == ConstructGraph \/ ForwardShapes

SpecShapes == InitModel /\ [][NextShapes]_vars

\* The batch dimension of features and the padded lengths of the last call.
FeatBatch == Cardinality(DOMAIN features[0])
QLen == Cardinality(DOMAIN qmask)

\* lengths has fewer entries than features has dialogues.
TooFewLengths == Cardinality(DOMAIN lengths) < FeatBatch
\* lengths has more entries than features has dialogues.
TooManyLengths == Cardinality(DOMAIN lengths) > FeatBatch
\* The valid length of some dialogue of features exceeds the padded length
\* of features or of the mask.
LengthBeyondPadding ==
    \E d \in DOMAIN lengths :
        d < FeatBatch /\ (lengths[d] > SeqLen \/ lengths[d] > QLen)

\* C16: when lengths has fewer or more entries than features has
\* dialogues, or a valid length exceeds the padded length of features or of
\* the speaker masks, the call ends in an exception and returns nothing.
\* Windows are well formed.
C16_ShapeMismatchFailsFast ==
    (/\ pc = "done" /\ ValidWindows
     /\ (TooFewLengths \/ TooManyLengths \/ LengthBeyondPadding)) =>
        /\ raised
        /\ node_features = <<>> /\ edge_index = <<>>
        /\ edge_norm = <<>> /\ edge_type = <<>> /\ edge_index_lengths = <<>>

----------------------------------------------------------------------------
(* SpecClasses: a model of either class is built, then forward is called   *)
(* on one dialogue in which speakers take turns.  The graph part of        *)
(* DialogueGCN_DailyModel.forward (lines 789-795) is that of               *)
(* DialogueGCNModel.forward.                                               *)

\* self.window_past = 6 and self.window_future = 6 (lines 733-734).
DailyWindow == 6

\* DialogueGCN_DailyModel.__init__: as DialogueGCNModel.__init__, but for
\* the windows.
ConstructDaily(n, wp, wf) ==
    /\ pc = "new"
    /\ ctor' = [class |-> "DialogueGCN_DailyModel",
                window_past |-> wp, window_future |-> wf]
    /\ n_speakers' = n
    /\ window_past' = DailyWindow
    /\ window_future' = DailyWindow
    /\ graph_net' = GraphNetwork_init(n_relations(n))
    /\ edge_type_mapping' = build_edge_type_mapping(n)
    /\ pc' = "built"
    /\ UNCHANGED <<l, all_perms, batchVars, graphVars, calls>>

ConstructModel ==
    \E n \in GraphSpeakerVals, wp \in WindowVals, wf \in WindowVals :
        Construct(n, wp, wf)

ConstructDailyModel ==
    \E n \in GraphSpeakerVals, wp \in WindowVals, wf \in WindowVals :
        ConstructDaily(n, wp, wf)

ForwardOne ==
    /\ pc = "built"
    /\ \E seq_len \in 1..MaxSeqLen :
        \E len \in [0..0 -> 1..seq_len] :
            Forward(1, seq_len, len,
                    qmask_of(n_speakers, 1, seq_len, turns_of(n_speakers, len)),
                    features_of(1, seq_len), FlatScale(seq_len))

NextClasses == ConstructModel \/ ConstructDailyModel \/ ForwardOne

SpecClasses == InitModel /\ [][NextClasses]_vars

\* C17: for both classes the windows the model holds, and with which
\* forward builds the graph, are the window_past and window_future given
\* to the constructor.  The windows given are well formed.
C17_WindowsAsConstructed ==
    (/\ pc \in {"built", "done"}
     /\ ctor.window_past >= -1 /\ ctor.window_future >= -1) =>
        /\ window_past = ctor.window_past
        /\ window_future = ctor.window_future
        /\ Returned =>
              \A d \in Dialogues :
                  edge_index_lengths[d + 1] =
                      Len(edge_perms(lengths[d], ctor.window_past,
                                     ctor.window_future))

----------------------------------------------------------------------------
(* Claims about the size of the relation-aware convolution.                *)

\* C18: for every n_speakers >= 1 the number of bases of the relation-aware
\* convolution is positive and at most the number of relations
\* 2 * n_speakers^2 the model is built with.
C18_BasesWithinRelations ==
    pc = "built" =>
        /\ graph_net.num_relations = 2 * n_speakers * n_speakers
        /\ graph_net.num_bases > 0
        /\ graph_net.num_bases <= graph_net.num_relations

====
